---- MODULE Spec2Model ----
(***************************************************************************)
(* Model of the servo driver of CanSat-Galaxy-Firmware (src/src/servo.c,   *)
(* src/include/servo.h): a fixed registry of MAX_SERVOS entries, the PWM   *)
(* parameter and angle-to-level computations (IEEE-754 binary32, modelled  *)
(* bit-exactly on integers), and the operations servo_init,                *)
(* servo_init_default, servo_set, servo_detach and servo_attach acting on  *)
(* the registry and on the PWM hardware (slices, compare levels).          *)
(***************************************************************************)
EXTENDS Integers, Sequences, FiniteSets, TLC

\* ------------------------------------------------------------------------
\* Program constants (src/include/servo.h)
\* ------------------------------------------------------------------------
MAX_SERVOS == 8
DEFAULT_SERVO_MIN_PULSE_US == 1000
DEFAULT_SERVO_MAX_PULSE_US == 2000
SERVO_PWM_FREQ_HZ == 50

\* uint16_t store: the value of a wider integer kept modulo 2^16
U16(n) == n % 65536

\* ------------------------------------------------------------------------
\* binary32 arithmetic on non-negative values.  A float is [m, e] with
\* value m * 2^e, m = 0 or 2^23 <= m < 2^24; every operation rounds to
\* nearest, ties to even, as the `float' operators of the C code do.
\* ------------------------------------------------------------------------
FZero == [m |-> 0, e |-> 0]

\* number of significant bits of n, 0 <= n < 2^31
BitLen(n) == Cardinality({k \in 0 .. 30 : 2 ^ k <= n})

FShift(m, e, sh) == [m |-> m * (2 ^ sh), e |-> e - sh]

\* m * 2^e with m < 2^24, shifted to a 24-bit significand
FNormUp(m, e) == IF m = 0 THEN FZero ELSE FShift(m, e, 24 - BitLen(m))

\* a significand that rounding carried to 2^24 is renormalised
FPack(q, e) ==
    IF q = 16777216 THEN [m |-> 8388608, e |-> e + 1] ELSE [m |-> q, e |-> e]

\* round up: q the bits kept, r the bits dropped, half the weight of the
\* first dropped bit, sticky a nonzero fraction below the dropped bits
FRoundUp(q, r, half, sticky) ==
    r > half \/ (r = half /\ (sticky \/ q % 2 = 1))

\* drop the s low bits of m
FRoundAt(m, e, sticky, s) ==
    FPack((m \div (2 ^ s))
            + (IF FRoundUp(m \div (2 ^ s), m % (2 ^ s), 2 ^ (s - 1), sticky)
               THEN 1 ELSE 0),
          e + s)

\* round m * 2^e (plus a nonzero fraction below the last bit of m when
\* sticky) to 24 significant bits, ties to even
FRound(m, e, sticky) ==
    IF m < 16777216 THEN FNormUp(m, e)
    ELSE FRoundAt(m, e, sticky, BitLen(m) - 24)

\* (float)n for a non-negative integer n
FFromInt(n) == FRound(n, 0, FALSE)

\* a < b
FLt(a, b) ==
    IF b.m = 0 THEN FALSE
    ELSE IF a.m = 0 THEN TRUE
    ELSE IF a.e # b.e THEN a.e < b.e
    ELSE a.m < b.m

\* a * b: the 48-bit product of the significands from 12-bit limbs, as
\* hi * 2^24 + lo
FMulHiLo(hi, lo, e) ==
    FRound(hi * 64 + (lo \div 262144), e + 18, lo % 262144 # 0)

FMulSum(p2, t1, lo12, e) ==
    FMulHiLo(p2 + (t1 \div 4096), (t1 % 4096) * 4096 + lo12, e)

FMulLimbs(a1, a0, b1, b0, e) ==
    FMulSum(a1 * b1, a1 * b0 + a0 * b1 + ((a0 * b0) \div 4096),
            (a0 * b0) % 4096, e)

FMul(a, b) ==
    IF a.m = 0 \/ b.m = 0 THEN FZero
    ELSE FMulLimbs(a.m \div 4096, a.m % 4096, b.m \div 4096, b.m % 4096,
                   a.e + b.e)

\* long division: k further quotient bits of qr[2] / d appended to qr[1]
FDivStep(qr, d, k) ==
    <<qr[1] * (2 ^ k) + ((qr[2] * (2 ^ k)) \div d), (qr[2] * (2 ^ k)) % d>>

FDivEnd(qr, e) == FRound(qr[1], e, qr[2] # 0)

\* a / b, b # 0: 26 quotient bits below the leading one
FDiv(a, b) ==
    IF a.m = 0 THEN FZero
    ELSE FDivEnd(FDivStep(FDivStep(FDivStep(FDivStep(
                    <<a.m \div b.m, a.m % b.m>>, b.m, 7), b.m, 7), b.m, 7), b.m, 5),
                 a.e - b.e - 26)

\* big + small, d the difference of their exponents
FAddAligned(big, small, d) ==
    IF d > 26 THEN big
    ELSE FRound(big.m * 8 + ((small.m * 8) \div (2 ^ d)),
                big.e - 3, (small.m * 8) % (2 ^ d) # 0)

\* a + b
FAdd(a, b) ==
    IF a.m = 0 THEN b
    ELSE IF b.m = 0 THEN a
    ELSE IF a.e >= b.e THEN FAddAligned(a, b, a.e - b.e)
    ELSE FAddAligned(b, a, b.e - a.e)

FSubAligned(a, b, d) ==
    IF d > 26 THEN a
    ELSE FRound(a.m * 8 - ((b.m * 8) \div (2 ^ d))
                   - (IF (b.m * 8) % (2 ^ d) # 0 THEN 1 ELSE 0),
                a.e - 3, (b.m * 8) % (2 ^ d) # 0)

\* a - b, for a >= b
FSub(a, b) == IF b.m = 0 THEN a ELSE FSubAligned(a, b, a.e - b.e)

\* the integral part of a (conversion of a float to an integer type)
FTrunc(a) ==
    IF a.m = 0 THEN 0
    ELSE IF a.e >= 0 THEN a.m * (2 ^ a.e)
    ELSE IF a.e < -24 THEN 0
    ELSE a.m \div (2 ^ (0 - a.e))

\* ------------------------------------------------------------------------
\* PWM parameter computation and angle-to-level mapping.  Each function is
\* given as the chain of its statements, a statement's result being the
\* last parameter of the next.
\* ------------------------------------------------------------------------
F1 == FFromInt(1)

\* 255.0f + (15.0f / 16.0f)
MAX_DIVIDER == FAdd(FFromInt(255), FDiv(FFromInt(15), FFromInt(16)))

PwmFail == [ok |-> FALSE, wrap_val |-> 0, clk_div_int |-> 0, clk_div_frac |-> 0]

\* the wrap check without the test for 0
PwmCheckWrap_nozero(clk_div_int, clk_div_frac, wrap_val) ==
    [ok |-> TRUE,
     wrap_val |-> IF wrap_val > 65535 THEN 65535 ELSE wrap_val,
     clk_div_int |-> clk_div_int,
     clk_div_frac |-> clk_div_frac]

\* lines 95-103: a zero wrap fails, the dividers being written already; the
\* test wrap_val > 65535 is on a uint16_t
PwmCheckWrap(clk_div_int, clk_div_frac, wrap_val) ==
    IF wrap_val = 0
    THEN [ok |-> FALSE, wrap_val |-> 0,
          clk_div_int |-> clk_div_int, clk_div_frac |-> clk_div_frac]
    ELSE [ok |-> TRUE,
          wrap_val |-> IF wrap_val > 65535 THEN 65535 ELSE wrap_val,
          clk_div_int |-> clk_div_int,
          clk_div_frac |-> clk_div_frac]

\* line 92: (uint16_t)(ticks - 1.0f).  ticks - 1.0f lies in (-1, 0) when
\* ticks < 1, its integral part is 0.  The conversion of a float beyond
\* 65535 keeps the low 16 bits of its integral part (the 32-bit conversion
\* followed by the 16-bit store the target build performs).
PwmWrap(ticks) ==
    IF FLt(ticks, F1) THEN 0 ELSE U16(FTrunc(FSub(ticks, F1)))

\* lines 91-92: the wrap value from the effective divider
PwmFromEffective(freq_hz, sys_clk_hz, clk_div_int, clk_div_frac, effective_divider) ==
    PwmCheckWrap(clk_div_int, clk_div_frac,
                 PwmWrap(FDiv(FFromInt(sys_clk_hz),
                              FMul(effective_divider, FFromInt(freq_hz)))))

\* line 91
PwmFromFrac(freq_hz, sys_clk_hz, clk_div_int, clk_div_frac) ==
    PwmFromEffective(freq_hz, sys_clk_hz, clk_div_int, clk_div_frac,
                     FAdd(FFromInt(clk_div_int),
                          FDiv(FFromInt(clk_div_frac), FFromInt(16))))

\* line 88
PwmFromInt(freq_hz, sys_clk_hz, divider, clk_div_int) ==
    PwmFromFrac(freq_hz, sys_clk_hz, clk_div_int,
                U16(FTrunc(FMul(FSub(divider, FFromInt(clk_div_int)),
                                FFromInt(16)))))

\* the divider taken without the test against MAX_DIVIDER
PwmFromDivider_nocheck(freq_hz, sys_clk_hz, divider) ==
    PwmFromInt(freq_hz, sys_clk_hz, divider, U16(FTrunc(divider)))

\* lines 79-87
PwmFromDivider(freq_hz, sys_clk_hz, divider) ==
    IF FLt(MAX_DIVIDER, divider) THEN PwmFail
    ELSE PwmFromInt(freq_hz, sys_clk_hz, divider, U16(FTrunc(divider)))

\* line 77
PwmClampDivider(divider) == IF FLt(divider, F1) THEN F1 ELSE divider

\* calculate_pwm_params, with the value clock_get_hz(clk_sys) returns as a
\* parameter
calculate_pwm_params(freq_hz, sys_clk_hz) ==
    IF sys_clk_hz = 0 THEN PwmFail
    ELSE PwmFromDivider(freq_hz, sys_clk_hz,
            PwmClampDivider(FDiv(FFromInt(sys_clk_hz),
                                 FMul(FFromInt(freq_hz), FFromInt(65536)))))

\* angle_to_level without the clamp to wrap_val
LevelClamp_none(level, wrap_val) == level

\* lines 123-125
LevelClamp(level, wrap_val) == IF level > wrap_val THEN wrap_val ELSE level

\* the interpolation without its offset min_pulse_us
PulseUs_no_offset(angle, min_pulse_us, max_pulse_us) ==
    FMul(FDiv(FFromInt(angle), FFromInt(180)),
         FFromInt(max_pulse_us - min_pulse_us))

\* line 116, for min_pulse_us <= max_pulse_us
PulseUs(angle, min_pulse_us, max_pulse_us) ==
    FAdd(FFromInt(min_pulse_us),
         FMul(FDiv(FFromInt(angle), FFromInt(180)),
              FFromInt(max_pulse_us - min_pulse_us)))

\* lines 119-120: the conversion to uint16_t keeps the low 16 bits
LevelOfPulse(pulse_us, wrap_val) ==
    U16(FTrunc(FMul(FDiv(pulse_us,
                         FDiv(FFromInt(1000000), FFromInt(SERVO_PWM_FREQ_HZ))),
                    FFromInt(wrap_val + 1))))

angle_to_level(angle, servo) ==
    IF ~servo.is_initialized THEN 0
    ELSE LevelClamp(LevelOfPulse(PulseUs(IF angle > 180 THEN 180 ELSE angle,
                                         servo.min_pulse_us, servo.max_pulse_us),
                                 servo.wrap_val),
                    servo.wrap_val)

\* ------------------------------------------------------------------------
\* Hardware interface (Pico SDK): routing of a GPIO to its PWM slice and
\* channel.  Two consecutive GPIOs share one slice.
\* ------------------------------------------------------------------------
pwm_gpio_to_slice_num(gpio_num) == (gpio_num \div 2) % 8
pwm_gpio_to_channel(gpio_num) == gpio_num % 2

Slices == 0 .. 7

\* ------------------------------------------------------------------------
\* State
\* ------------------------------------------------------------------------
VARIABLES
    servo_state,              \* the registry: slot index -> servo_info_t
    servo_state_initialized,  \* the lazy-initialisation flag
    clk_sys,                  \* the frequency clock_get_hz(clk_sys) returns
    pwm_enabled,              \* slice -> running (CSR.EN)
    pwm_top,                  \* slice -> configured wrap (TOP)
    pwm_level,                \* slice -> <<level of channel A, level of B>>
    gpio_pwm,                 \* GPIOs whose function is PWM
    hw_calls,                 \* state-changing hardware calls of the last call
    call,                     \* the last driver call: operation and GPIO
    ret,                      \* what the last driver call returned
    ret_line,                 \* line of servo.c of the return it took
    init_ok                   \* the GPIOs for which servo_init has returned true

vars == <<servo_state, servo_state_initialized, clk_sys,
          pwm_enabled, pwm_top, pwm_level, gpio_pwm, hw_calls, call, ret, ret_line,
          init_ok>>

hw == <<pwm_enabled, pwm_top, pwm_level, gpio_pwm>>

Slots == 0 .. MAX_SERVOS - 1

\* a zeroed servo_info_t
ServoZero ==
    [gpio_num |-> 0, slice_num |-> 0, chan_num |-> 0, wrap_val |-> 0,
     min_pulse_us |-> 0, max_pulse_us |-> 0,
     is_initialized |-> FALSE, is_attached |-> FALSE]

\* initialize_servo_state without the servo_state_initialized guard
initialize_servo_state_always == [i \in Slots |-> ServoZero]

\* the registry as initialize_servo_state leaves it
initialize_servo_state ==
    IF ~servo_state_initialized THEN [i \in Slots |-> ServoZero]
    ELSE servo_state

\* find_servo_index with the scan never matching
find_servo_index_never(st, gpio_num) == -1

\* find_servo_index answering slot 0 instead of -1 for an unknown GPIO
find_servo_index_zero(st, gpio_num) ==
    LET hit == {i \in Slots : st[i].is_initialized /\ st[i].gpio_num = gpio_num}
    IN  IF hit = {} THEN 0
        ELSE CHOOSE i \in hit : \A j \in hit : i <= j

\* index of the entry of gpio_num in registry st, or -1
find_servo_index(st, gpio_num) ==
    LET hit == {i \in Slots : st[i].is_initialized /\ st[i].gpio_num = gpio_num}
    IN  IF hit = {} THEN -1
        ELSE CHOOSE i \in hit : \A j \in hit : i <= j

\* find_free_index answering slot 0 instead of -1 for a full registry
find_free_index_reuse(st) ==
    LET free == {i \in Slots : ~st[i].is_initialized}
    IN  IF free = {} THEN 0
        ELSE CHOOSE i \in free : \A j \in free : i <= j

\* index of the first free slot of registry st, or -1
find_free_index(st) ==
    LET free == {i \in Slots : ~st[i].is_initialized}
    IN  IF free = {} THEN -1
        ELSE CHOOSE i \in free : \A j \in free : i <= j

\* ------------------------------------------------------------------------
\* Initial state: static storage is zeroed, no slice runs, the clock has
\* whatever frequency the platform booted with.
\* ------------------------------------------------------------------------
\* clock frequencies the hardware may report: not configured, too slow for
\* a nonzero wrap, the RP2040 default, too fast for the divider range
SysClks == {0, 50, 125000000, 900000000}

\* the input sets of the driver calls
PulseBounds == {<<1000, 2000>>, <<0, 2000>>, <<1000, 0>>, <<2000, 1000>>, <<1000, 1000>>}
Angles == {0, 255}

\* calculate_pwm_params and angle_to_level are pure: their values on the
\* inputs above are computed once and looked up by the operations
PwmMemo == {<<hz, calculate_pwm_params(SERVO_PWM_FREQ_HZ, hz)>> : hz \in SysClks}

MemoKeys ==
    (Angles \cup {0})
      \X {b \in PulseBounds : 0 < b[1] /\ b[1] < b[2]}
      \X {p[2].wrap_val : p \in {q \in PwmMemo : q[2].ok}}

LevelMemo ==
    {<<k, angle_to_level(k[1], [ServoZero EXCEPT !.is_initialized = TRUE,
                                                 !.min_pulse_us = k[2][1],
                                                 !.max_pulse_us = k[2][2],
                                                 !.wrap_val = k[3]])>> : k \in MemoKeys}

MemoGet(memo, k) == (CHOOSE p \in memo : p[1] = k)[2]

pwm_params(hz) ==
    IF hz \in SysClks THEN MemoGet(PwmMemo, hz)
    ELSE calculate_pwm_params(SERVO_PWM_FREQ_HZ, hz)

MemoKey(angle, servo) ==
    <<angle, <<servo.min_pulse_us, servo.max_pulse_us>>, servo.wrap_val>>

level_of(angle, servo) ==
    IF servo.is_initialized /\ MemoKey(angle, servo) \in MemoKeys
    THEN MemoGet(LevelMemo, MemoKey(angle, servo))
    ELSE angle_to_level(angle, servo)

NoCall == [op |-> "none", gpio_num |-> 0]

Init ==
    /\ servo_state = [i \in Slots |-> ServoZero]
    /\ servo_state_initialized = FALSE
    /\ clk_sys \in SysClks
    /\ pwm_enabled = [s \in Slices |-> FALSE]
    /\ pwm_top = [s \in Slices |-> 0]
    /\ pwm_level = [s \in Slices |-> <<0, 0>>]
    /\ gpio_pwm = {}
    /\ hw_calls = <<>>
    /\ call = NoCall
    /\ ret = FALSE
    /\ ret_line = 0
    /\ init_ok = {}

\* ------------------------------------------------------------------------
\* Driver operations
\* ------------------------------------------------------------------------
\* a failure of calculate_pwm_params met after the slot has been claimed
Fail_slot_claimed(st, line) ==
    /\ servo_state' = IF line = 173 /\ \E i \in Slots : ~st[i].is_initialized
                      THEN [st EXCEPT ![CHOOSE i \in Slots : ~st[i].is_initialized]
                                          .is_initialized = TRUE]
                      ELSE st
    /\ ret' = FALSE
    /\ ret_line' = line
    /\ hw_calls' = <<>>
    /\ UNCHANGED <<hw, init_ok>>

\* a call that returns false before touching an entry or the hardware
Fail(st, line) ==
    /\ servo_state' = st
    /\ ret' = FALSE
    /\ ret_line' = line
    /\ hw_calls' = <<>>
    /\ UNCHANGED <<hw, init_ok>>

\* a repeated detach or attach treated as an error
AlreadyThere_error(st, line) ==
    /\ servo_state' = st
    /\ ret' = FALSE
    /\ ret_line' = line
    /\ hw_calls' = <<>>
    /\ UNCHANGED <<hw, init_ok>>

\* detach of a detached entry, attach of an attached one: success, nothing done
AlreadyThere(st, line) ==
    /\ servo_state' = st
    /\ ret' = TRUE
    /\ ret_line' = line
    /\ hw_calls' = <<>>
    /\ UNCHANGED <<hw, init_ok>>

\* the bounds check with > for >=
pulse_bounds_invalid_gt(min_pulse_us, max_pulse_us) ==
    min_pulse_us = 0 \/ max_pulse_us = 0 \/ min_pulse_us > max_pulse_us

\* the bounds servo_init rejects
pulse_bounds_invalid(min_pulse_us, max_pulse_us) ==
    min_pulse_us = 0 \/ max_pulse_us = 0 \/ min_pulse_us >= max_pulse_us

\* servo_init, steps 6 to 10: the slot is free, the pin new, the bounds and
\* the PWM parameters valid
servo_init_commit(st, index, gpio_num, min_pulse_us, max_pulse_us, params) ==
    LET slice_num == pwm_gpio_to_slice_num(gpio_num)
        chan_num  == pwm_gpio_to_channel(gpio_num)
        servo == [gpio_num |-> gpio_num, slice_num |-> slice_num,
                  chan_num |-> chan_num, wrap_val |-> params.wrap_val,
                  min_pulse_us |-> min_pulse_us, max_pulse_us |-> max_pulse_us,
                  is_initialized |-> TRUE, is_attached |-> TRUE]
        initial_level == level_of(0, servo)
    IN  /\ servo_state' = [st EXCEPT ![index] = servo]
        /\ gpio_pwm' = gpio_pwm \cup {gpio_num}
        \* pwm_init(slice, &config, true): TOP and divider set, both compare
        \* levels back at their reset value, slice started
        /\ pwm_top' = [pwm_top EXCEPT ![slice_num] = params.wrap_val]
        /\ pwm_enabled' = [pwm_enabled EXCEPT ![slice_num] = TRUE]
        /\ pwm_level' = [pwm_level EXCEPT
                           ![slice_num] = [<<0, 0>> EXCEPT ![chan_num + 1] = initial_level]]
        /\ hw_calls' = << <<"gpio_set_function", gpio_num>>,
                          <<"pwm_init", slice_num, params.wrap_val,
                            params.clk_div_int, params.clk_div_frac>>,
                          <<"pwm_set_gpio_level", gpio_num, initial_level>> >>
        /\ ret' = TRUE
        /\ ret_line' = 212
        /\ init_ok' = init_ok \cup {gpio_num}

servo_init(gpio_num, min_pulse_us, max_pulse_us) ==
    LET st     == initialize_servo_state
        index  == find_free_index(st)
        params == pwm_params(clk_sys)
    IN  /\ servo_state_initialized' = TRUE
        /\ call' = [op |-> "servo_init", gpio_num |-> gpio_num]
        /\ UNCHANGED clk_sys
        /\ IF index = -1 THEN Fail(st, 142)
           ELSE IF find_servo_index(st, gpio_num) # -1 THEN Fail(st, 150)
           ELSE IF pulse_bounds_invalid(min_pulse_us, max_pulse_us) THEN Fail(st, 158)
           ELSE IF ~params.ok THEN Fail(st, 173)
           ELSE servo_init_commit(st, index, gpio_num, min_pulse_us,
                                  max_pulse_us, params)

servo_init_default(gpio_num) ==
    servo_init(gpio_num, DEFAULT_SERVO_MIN_PULSE_US, DEFAULT_SERVO_MAX_PULSE_US)

\* servo_set writing the level before it re-enables the slice
servo_set_calls_level_first(servo, level) ==
    << <<"pwm_set_gpio_level", servo.gpio_num, level>> >>
    \o (IF servo.is_attached THEN <<>>
        ELSE << <<"pwm_set_enabled", servo.slice_num, TRUE>> >>)

\* the hardware calls of servo_set on entry servo, in program order
servo_set_calls(servo, level) ==
    (IF servo.is_attached THEN <<>>
     ELSE << <<"pwm_set_enabled", servo.slice_num, TRUE>> >>)
    \o << <<"pwm_set_gpio_level", servo.gpio_num, level>> >>

servo_set(gpio_num, angle) ==
    LET st    == initialize_servo_state
        index == find_servo_index(st, gpio_num)
    IN  /\ servo_state_initialized' = TRUE
        /\ call' = [op |-> "servo_set", gpio_num |-> gpio_num]
        /\ UNCHANGED clk_sys
        /\ IF index = -1 THEN Fail(st, 227)
           ELSE
             LET was   == st[index]
                 servo == [was EXCEPT !.is_attached = TRUE]
                 level == level_of(angle, servo)
             IN  /\ servo_state' = [st EXCEPT ![index] = servo]
                 /\ pwm_enabled' = IF was.is_attached THEN pwm_enabled
                                   ELSE [pwm_enabled EXCEPT ![was.slice_num] = TRUE]
                 /\ pwm_level' = [pwm_level EXCEPT
                        ![pwm_gpio_to_slice_num(servo.gpio_num)]
                            [pwm_gpio_to_channel(servo.gpio_num) + 1] = level]
                 /\ hw_calls' = servo_set_calls(was, level)
                 /\ ret' = TRUE
                 /\ ret_line' = 251
                 /\ UNCHANGED <<pwm_top, gpio_pwm, init_ok>>

\* servo_detach without the test of is_attached
servo_detach_unguarded(gpio_num) ==
    LET st    == initialize_servo_state
        index == find_servo_index(st, gpio_num)
    IN  /\ servo_state_initialized' = TRUE
        /\ call' = [op |-> "servo_detach", gpio_num |-> gpio_num]
        /\ UNCHANGED clk_sys
        /\ IF index = -1 THEN Fail(st, 260)
           ELSE
             /\ pwm_enabled' = [pwm_enabled EXCEPT ![st[index].slice_num] = FALSE]
             /\ servo_state' = [st EXCEPT ![index].is_attached = FALSE]
             /\ hw_calls' = << <<"pwm_set_enabled", st[index].slice_num, FALSE>> >>
             /\ ret' = TRUE
             /\ ret_line' = 281
             /\ UNCHANGED <<pwm_top, pwm_level, gpio_pwm, init_ok>>

\* servo_detach marking every entry of the slice detached
servo_detach_propagate(gpio_num) ==
    LET st    == initialize_servo_state
        index == find_servo_index(st, gpio_num)
    IN  /\ servo_state_initialized' = TRUE
        /\ call' = [op |-> "servo_detach", gpio_num |-> gpio_num]
        /\ UNCHANGED clk_sys
        /\ IF index = -1 THEN Fail(st, 260)
           ELSE IF ~st[index].is_attached THEN
             AlreadyThere(st, 269)
           ELSE
             /\ pwm_enabled' = [pwm_enabled EXCEPT ![st[index].slice_num] = FALSE]
             /\ servo_state' =
                   [i \in Slots |->
                      IF st[i].is_initialized /\ st[i].slice_num = st[index].slice_num
                      THEN [st[i] EXCEPT !.is_attached = FALSE]
                      ELSE st[i]]
             /\ hw_calls' = << <<"pwm_set_enabled", st[index].slice_num, FALSE>> >>
             /\ ret' = TRUE
             /\ ret_line' = 281
             /\ UNCHANGED <<pwm_top, pwm_level, gpio_pwm, init_ok>>

servo_detach(gpio_num) ==
    LET st    == initialize_servo_state
        index == find_servo_index(st, gpio_num)
    IN  /\ servo_state_initialized' = TRUE
        /\ call' = [op |-> "servo_detach", gpio_num |-> gpio_num]
        /\ UNCHANGED clk_sys
        /\ IF index = -1 THEN Fail(st, 260)
           ELSE IF ~st[index].is_attached THEN
             AlreadyThere(st, 269)
           ELSE
             /\ pwm_enabled' = [pwm_enabled EXCEPT ![st[index].slice_num] = FALSE]
             /\ servo_state' = [st EXCEPT ![index].is_attached = FALSE]
             /\ hw_calls' = << <<"pwm_set_enabled", st[index].slice_num, FALSE>> >>
             /\ ret' = TRUE
             /\ ret_line' = 281
             /\ UNCHANGED <<pwm_top, pwm_level, gpio_pwm, init_ok>>

\* servo_attach commanding angle 0 again after it enables the slice
servo_attach_rewrite(gpio_num) ==
    LET st    == initialize_servo_state
        index == find_servo_index(st, gpio_num)
    IN  /\ servo_state_initialized' = TRUE
        /\ call' = [op |-> "servo_attach", gpio_num |-> gpio_num]
        /\ UNCHANGED clk_sys
        /\ IF index = -1 THEN Fail(st, 290)
           ELSE IF st[index].is_attached THEN
             AlreadyThere(st, 299)
           ELSE
             /\ pwm_enabled' = [pwm_enabled EXCEPT ![st[index].slice_num] = TRUE]
             /\ servo_state' = [st EXCEPT ![index].is_attached = TRUE]
             /\ pwm_level' = [pwm_level EXCEPT
                    ![st[index].slice_num][st[index].chan_num + 1] =
                        level_of(0, st[index])]
             /\ hw_calls' = << <<"pwm_set_enabled", st[index].slice_num, TRUE>>,
                               <<"pwm_set_gpio_level", gpio_num, level_of(0, st[index])>> >>
             /\ ret' = TRUE
             /\ ret_line' = 313
             /\ UNCHANGED <<pwm_top, gpio_pwm, init_ok>>

servo_attach(gpio_num) ==
    LET st    == initialize_servo_state
        index == find_servo_index(st, gpio_num)
    IN  /\ servo_state_initialized' = TRUE
        /\ call' = [op |-> "servo_attach", gpio_num |-> gpio_num]
        /\ UNCHANGED clk_sys
        /\ IF index = -1 THEN Fail(st, 290)
           ELSE IF st[index].is_attached THEN
             AlreadyThere(st, 299)
           ELSE
             /\ pwm_enabled' = [pwm_enabled EXCEPT ![st[index].slice_num] = TRUE]
             /\ servo_state' = [st EXCEPT ![index].is_attached = TRUE]
             /\ hw_calls' = << <<"pwm_set_enabled", st[index].slice_num, TRUE>> >>
             /\ ret' = TRUE
             /\ ret_line' = 313
             /\ UNCHANGED <<pwm_top, pwm_level, gpio_pwm, init_ok>>

\* ------------------------------------------------------------------------
\* Environment: the application reconfigures the system clock, so a later
\* clock_get_hz(clk_sys) returns another frequency
\* ------------------------------------------------------------------------
SetSysClk(hz) ==
    /\ hz # clk_sys
    /\ clk_sys' = hz
    /\ UNCHANGED <<servo_state, servo_state_initialized, hw, hw_calls, call,
                   ret, ret_line, init_ok>>

\* ------------------------------------------------------------------------
\* Spec: every interleaving of the operations on three GPIOs, two of which
\* share slice 0, with valid and invalid pulse bounds, under every clock
\* ------------------------------------------------------------------------
Gpios == {0, 1, 2}

Next ==
    \/ \E g \in Gpios, b \in PulseBounds : servo_init(g, b[1], b[2])
    \/ \E g \in Gpios : servo_init_default(g)
    \/ \E g \in Gpios, a \in Angles : servo_set(g, a)
    \/ \E g \in Gpios : servo_detach(g)
    \/ \E g \in Gpios : servo_attach(g)
    \/ \E hz \in SysClks : SetSysClk(hz)

Spec == Init /\ [][Next]_vars

\* ------------------------------------------------------------------------
\* SpecFill: the application brings up GPIO 0, 1, 2, ... in this order until
\* the registry is full.  A call of servo_init names an earlier GPIO or the
\* next one, and any GPIO once the registry is full; servo_set, servo_detach
\* and servo_attach act on the two GPIOs of slice 0.
\* ------------------------------------------------------------------------
MaxFillGpio == 8
FillGpios == 0 .. MaxFillGpio
FillOpGpios == {0, 1}

Initialized == {i \in Slots : servo_state[i].is_initialized}

RegistryFull == Cardinality(Initialized) = MAX_SERVOS

FillTurn(g) == g <= Cardinality(Initialized) \/ RegistryFull

NextFill ==
    \/ \E g \in FillGpios, b \in PulseBounds : FillTurn(g) /\ servo_init(g, b[1], b[2])
    \/ \E g \in FillGpios : FillTurn(g) /\ servo_init_default(g)
    \/ \E g \in FillOpGpios, a \in Angles : servo_set(g, a)
    \/ \E g \in FillOpGpios : servo_detach(g)
    \/ \E g \in FillOpGpios : servo_attach(g)
    \/ \E hz \in SysClks : SetSysClk(hz)

SpecFill == Init /\ [][NextFill]_vars

\* ------------------------------------------------------------------------
\* SpecPwm: the PWM arithmetic on its inputs.  The clock keeps the frequency
\* it booted with, drawn from the frequencies at which calculate_pwm_params
\* changes behaviour; one GPIO is initialized with one of the calibrations
\* and commanded to the angles.
\* ------------------------------------------------------------------------
\* not configured; wrap 0; smallest wrap; divider 1.0 with wrap 6022, 19999,
\* 65535; period count 65536; the RP2040 default; the largest divider and the
\* clocks around the single-precision rounding of it; beyond the divider
\* range
PwmClks ==
    {0, 50, 100, 301150, 1000000, 3276800, 3276850, 125000000,
     838656000, 838656001, 838656032, 838656033, 900000000}

PwmBounds ==
    {<<1000, 2000>>, <<500, 2500>>, <<1, 65535>>, <<12087, 12088>>,
     <<19000, 21000>>, <<30000, 40000>>}

PwmAngles == {0, 90, 180, 255}

PwmGpios == {0}

InitPwm ==
    /\ servo_state = [i \in Slots |-> ServoZero]
    /\ servo_state_initialized = FALSE
    /\ clk_sys \in PwmClks
    /\ pwm_enabled = [s \in Slices |-> FALSE]
    /\ pwm_top = [s \in Slices |-> 0]
    /\ pwm_level = [s \in Slices |-> <<0, 0>>]
    /\ gpio_pwm = {}
    /\ hw_calls = <<>>
    /\ call = NoCall
    /\ ret = FALSE
    /\ ret_line = 0
    /\ init_ok = {}

NextPwm ==
    \/ \E g \in PwmGpios, b \in PwmBounds : servo_init(g, b[1], b[2])
    \/ \E g \in PwmGpios, a \in PwmAngles : servo_set(g, a)

SpecPwm == InitPwm /\ [][NextPwm]_vars

\* ------------------------------------------------------------------------
\* Properties
\* ------------------------------------------------------------------------
\* the entries of GPIO g
EntriesOf(g) ==
    {i \in Slots : servo_state[i].is_initialized /\ servo_state[i].gpio_num = g}

SliceOf(g) == pwm_gpio_to_slice_num(g)

\* C1: immediately after servo_set(pin, angle) has returned true, the
\* hardware slice of that pin is enabled.
C1_SetLeavesSliceEnabled ==
    (call.op = "servo_set" /\ ret) => pwm_enabled[SliceOf(call.gpio_num)]

\* C2: for every initialized entry, the attached flag is true exactly when
\* the slice the entry is routed to is enabled.
C2_AttachedIffSliceEnabled ==
    \A i \in Initialized :
        servo_state[i].is_attached <=> pwm_enabled[servo_state[i].slice_num]

\* C3: the registry holds at most 8 initialized entries, and no two
\* initialized entries have the same pin.
C3_CapacityAndDistinctPins ==
    /\ Cardinality(Initialized) <= 8
    /\ \A i \in Initialized, j \in Initialized :
          servo_state[i].gpio_num = servo_state[j].gpio_num => i = j

\* C3 witness: the registry is full, with eight different pins, and a
\* further servo_init has been refused
C3_Witness ==
    /\ Cardinality(Initialized) = 8
    /\ Cardinality({servo_state[i].gpio_num : i \in Initialized}) = 8
    /\ call.op = "servo_init" /\ ~ret

\* C4: once servo_init has returned true for 8 pins, every further
\* servo_init returns false, for every pin (new or present), every pair of
\* pulse bounds and every clock.
C4_FullRegistryRejectsInit ==
    [][Cardinality(init_ok) >= 8 =>
         \A g \in FillGpios, b \in PulseBounds :
             servo_init(g, b[1], b[2]) => ret' = FALSE]_vars

\* C4 witness: 8 pins are in, and servo_init of a ninth pin has returned
\* false for lack of a slot
C4_Witness ==
    /\ Cardinality(init_ok) = 8
    /\ call.op = "servo_init" /\ call.gpio_num \notin init_ok
    /\ ~ret /\ ret_line = 142

\* C5: if servo_init has returned true for a pin, every later servo_init of
\* that pin returns false, whatever the bounds, and changes no entry.
C5_ReinitRejected ==
    [][\A g \in Gpios, b \in PulseBounds :
          (g \in init_ok /\ servo_init(g, b[1], b[2]))
              => (ret' = FALSE /\ servo_state' = servo_state)]_vars

\* C5 witness: with a free slot left, servo_init of a pin that is in has
\* returned false as a duplicate, after the pin had been detached
C5_Witness ==
    /\ call.op = "servo_init" /\ call.gpio_num \in init_ok
    /\ ~ret /\ ret_line = 150
    /\ \E i \in EntriesOf(call.gpio_num) : ~servo_state[i].is_attached

\* C6: servo_init returns false whenever minPulseUs = 0, maxPulseUs = 0 or
\* minPulseUs >= maxPulseUs; so every initialized entry has
\* 0 < minPulseUs < maxPulseUs.
C6_InvalidBoundsRejected ==
    /\ [][\A g \in Gpios, b \in PulseBounds :
             (servo_init(g, b[1], b[2]) /\ (b[1] = 0 \/ b[2] = 0 \/ b[1] >= b[2]))
                 => ret' = FALSE]_vars
    /\ [](\A i \in Initialized :
             0 < servo_state[i].min_pulse_us
             /\ servo_state[i].min_pulse_us < servo_state[i].max_pulse_us)

\* C6 witness: servo_init of a new pin, with a slot free, has returned false
\* at the bounds check, other entries being in the registry
C6_Witness ==
    /\ call.op = "servo_init" /\ ~ret /\ ret_line = 158
    /\ Initialized # {}

C8_UnknownPinRejected ==
    [][\A g \in Gpios :
          (EntriesOf(g) = {}
           /\ (servo_detach(g) \/ servo_attach(g) \/ \E a \in Angles : servo_set(g, a)))
              => (ret' = FALSE /\ servo_state' = servo_state
                  /\ hw_calls' = <<>> /\ UNCHANGED hw)]_vars

\* C8 witness: one of the three has been refused for an unknown pin while
\* another pin is in the registry
C8_Witness ==
    /\ call.op \in {"servo_set", "servo_detach", "servo_attach"}
    /\ ~ret /\ ret_line \in {227, 260, 290}
    /\ EntriesOf(call.gpio_num) = {}
    /\ Initialized # {}

\* C9: for a pin whose servo_init has returned true, every later servo_set,
\* servo_detach and servo_attach of that pin returns true, in any order and
\* number, whatever is called on other pins.
C9_KnownPinAlwaysSucceeds ==
    [][\A g \in Gpios :
          (g \in init_ok
           /\ (servo_detach(g) \/ servo_attach(g) \/ \E a \in Angles : servo_set(g, a)))
              => ret' = TRUE]_vars

\* C9 witness: a detach of an already detached pin has returned true
C9_Witness ==
    /\ call.op = "servo_detach" /\ call.gpio_num \in init_ok
    /\ ret /\ ret_line = 269

\* C10: servo_set on an entry whose attached flag is false returns true,
\* enables the slice before it writes the compare level, and leaves the
\* flag true.
C10_SetReattaches ==
    [][\A g \in Gpios, a \in Angles :
          ((\E i \in EntriesOf(g) : ~servo_state[i].is_attached) /\ servo_set(g, a))
              => /\ ret' = TRUE
                 /\ Len(hw_calls') = 2
                 /\ hw_calls'[1] = <<"pwm_set_enabled", SliceOf(g), TRUE>>
                 /\ hw_calls'[2][1] = "pwm_set_gpio_level"
                 /\ hw_calls'[2][2] = g
                 /\ \A i \in Slots :
                       (servo_state'[i].is_initialized /\ servo_state'[i].gpio_num = g)
                           => servo_state'[i].is_attached]_vars

\* C10 witness: a servo_set has re-enabled the slice and then written a level
C10_Witness ==
    /\ call.op = "servo_set" /\ ret
    /\ Len(hw_calls) = 2
    /\ hw_calls[1][1] = "pwm_set_enabled"
    /\ \E i \in EntriesOf(call.gpio_num) : servo_state[i].is_attached

\* C11: an initialized entry stays initialized for ever: no call of init,
\* set, attach or detach, on its pin or another, changes its initialized
\* flag, pin, slice, channel, wrap value or pulse bounds; only its attached
\* flag may change.
C11_EntriesPermanent ==
    [][\A i \in Slots :
          servo_state[i].is_initialized
              => servo_state'[i] =
                    [servo_state[i] EXCEPT !.is_attached = servo_state'[i].is_attached]]_vars

\* C11 witness: all three pins are in, one of them detached, and a further
\* servo_init of one of them has been refused
C11_Witness ==
    /\ Cardinality(Initialized) = 3
    /\ \E i \in Initialized : ~servo_state[i].is_attached
    /\ call.op = "servo_init" /\ ~ret /\ ret_line = 150

\* C12: detach of an entry whose attached flag is false, and attach of an
\* entry whose attached flag is true, return true, make no hardware call and
\* leave registry and hardware as they were.
C12_RepeatIsNoOp ==
    [][\A g \in Gpios :
          (\/ (\E i \in EntriesOf(g) : ~servo_state[i].is_attached) /\ servo_detach(g)
           \/ (\E i \in EntriesOf(g) : servo_state[i].is_attached) /\ servo_attach(g))
              => (ret' = TRUE /\ hw_calls' = <<>>
                  /\ servo_state' = servo_state /\ UNCHANGED hw)]_vars

\* C12 witness: an attach of an attached pin has returned true with no call
C12_Witness ==
    /\ call.op = "servo_attach" /\ call.gpio_num \in init_ok
    /\ ret /\ ret_line = 299 /\ hw_calls = <<>>

\* C13: attach and detach never write a compare level: every level in the
\* hardware is what it was before the call; attach of a detached entry only
\* enables the slice and sets the flag.
C13_AttachDetachKeepLevel ==
    [][\A g \in Gpios :
          /\ (servo_attach(g) \/ servo_detach(g))
                => (pwm_level' = pwm_level
                    /\ \A k \in 1 .. Len(hw_calls') : hw_calls'[k][1] = "pwm_set_enabled")
          /\ ((\E i \in EntriesOf(g) : ~servo_state[i].is_attached) /\ servo_attach(g))
                => (/\ hw_calls' = << <<"pwm_set_enabled", SliceOf(g), TRUE>> >>
                    /\ pwm_enabled' = [pwm_enabled EXCEPT ![SliceOf(g)] = TRUE]
                    /\ \E i \in EntriesOf(g) :
                          servo_state' = [servo_state EXCEPT ![i].is_attached = TRUE]
                    /\ UNCHANGED <<pwm_top, pwm_level, gpio_pwm>>)]_vars

\* C13 witness: an attach has re-enabled a slice whose pin carries a
\* nonzero level
C13_Witness ==
    /\ call.op = "servo_attach" /\ ret /\ ret_line = 313
    /\ pwm_level[SliceOf(call.gpio_num)][pwm_gpio_to_channel(call.gpio_num) + 1] > 0

\* C20: set, attach and detach of pin p change no field of any entry but the
\* attached flag of p's own entry; the entry of a pin that shares p's slice
\* keeps its flag.
C20_OnlyOwnAttachedFlag ==
    [][\A g \in Gpios :
          (servo_detach(g) \/ servo_attach(g) \/ \E a \in Angles : servo_set(g, a))
              => \A i \in Slots :
                    \/ servo_state'[i] = servo_state[i]
                    \/ /\ i \in EntriesOf(g)
                       /\ servo_state'[i] =
                             [servo_state[i] EXCEPT !.is_attached = ~servo_state[i].is_attached]]_vars

\* C20 witness: a detach has disabled a slice on which another pin, still
\* flagged attached, is routed
C20_Witness ==
    /\ call.op = "servo_detach" /\ ret /\ ret_line = 281
    /\ \E i \in Initialized :
          /\ servo_state[i].gpio_num # call.gpio_num
          /\ servo_state[i].slice_num = SliceOf(call.gpio_num)
          /\ servo_state[i].is_attached
          /\ ~pwm_enabled[servo_state[i].slice_num]

\* ------------------------------------------------------------------------
\* Properties of the PWM arithmetic, under SpecPwm
\* ------------------------------------------------------------------------
\* servo_init has run calculate_pwm_params (it got past the bounds check)
InitComputed == call.op = "servo_init" /\ ret_line \in {173, 212}

\* the dividers calculate_pwm_params writes at the clock of this behaviour
DividersNow == calculate_pwm_params(SERVO_PWM_FREQ_HZ, clk_sys)

\* sixteen times the effective divider clk_div_int + clk_div_frac / 16
Divider16 == 16 * DividersNow.clk_div_int + DividersNow.clk_div_frac

\* sysclk / (effectiveDivider * freq) - 1 > 65535
PeriodCountExceeds16Bits == clk_sys > (4096 * SERVO_PWM_FREQ_HZ) * Divider16

\* the integral part of sysclk / (effectiveDivider * freq) - 1 is 0
PeriodCountIsZero ==
    clk_sys < 100000 /\ 16 * clk_sys < (2 * SERVO_PWM_FREQ_HZ) * Divider16

\* C14: for a nonzero clock whose divider is in range, if the period count
\* sysclk / (effectiveDivider * freq) - 1 exceeds 65535, servo_init's call of
\* calculate_pwm_params succeeds with wrap value 65535; it fails only when
\* the period count is 0.
C14_WrapClampedTo65535 ==
    (InitComputed /\ DividersNow.clk_div_int > 0)
        => /\ PeriodCountExceeds16Bits
                => (ret /\ \A i \in EntriesOf(call.gpio_num) :
                              servo_state[i].wrap_val = 65535)
           /\ ~ret => PeriodCountIsZero

\* the ideal divider sysclk / (freq * 65536) exceeds 255.9375 = 4095 / 16
IdealDividerAboveMax == clk_sys > 4095 * (4096 * SERVO_PWM_FREQ_HZ)

\* the ideal divider is below 1.0
IdealDividerBelowOne == clk_sys < 65536 * SERVO_PWM_FREQ_HZ

\* the dividers are those of a clock in range
DividersInRange ==
    /\ DividersNow.clk_div_int \in 1 .. 255
    /\ DividersNow.clk_div_frac \in 0 .. 15
    /\ IdealDividerBelowOne
          => (DividersNow.clk_div_int = 1 /\ DividersNow.clk_div_frac = 0)
    /\ ret => hw_calls[2] = <<"pwm_init", SliceOf(call.gpio_num),
                              DividersNow.wrap_val, DividersNow.clk_div_int,
                              DividersNow.clk_div_frac>>

\* C15 as stated: calculate_pwm_params fails at clock 0, fails when the ideal
\* divider exceeds 255.9375, and otherwise gives clk_div_int in 1..255 and
\* clk_div_frac in 0..15, a divider below 1.0 being raised to 1 and 0.
C15_DividerRangeIdeal ==
    (call.op = "servo_init" /\ ret_line \in {173, 212})
        => /\ clk_sys = 0 => ~ret
           /\ IdealDividerAboveMax => ~ret
           /\ (clk_sys # 0 /\ ~IdealDividerAboveMax) => DividersInRange

\* C15 amended: calculate_pwm_params fails at clock 0, fails when the
\* divider it computes in single precision exceeds 255.9375, that is for
\* every clock above 838656032 Hz, and otherwise gives clk_div_int in 1..255
\* and clk_div_frac in 0..15, a divider below 1.0 being raised to 1 and 0;
\* the clocks 838656001..838656032 Hz round to 255.9375 and give 255 and 15.
C15_DividerRangeSingle ==
    (ret_line \in {173, 212} /\ call.op = "servo_init")
        => /\ clk_sys = 0 => ~ret
           /\ clk_sys > 838656032 => ~ret
           /\ (clk_sys # 0 /\ clk_sys <= 838656032) => DividersInRange
           /\ (IdealDividerAboveMax /\ clk_sys <= 838656032)
                 => (ret /\ DividersNow.clk_div_int = 255
                         /\ DividersNow.clk_div_frac = 15)

\* C15 witness: servo_init has succeeded at a clock whose ideal divider is
\* above 255.9375
C15_Witness ==
    /\ call.op = "servo_init" /\ ret /\ ret_line = 212
    /\ IdealDividerAboveMax
    /\ hw_calls[2][4] = 255 /\ hw_calls[2][5] = 15

\* C16: for every initialized entry and all angles a <= b in 0..255,
\* angle_to_level(a) <= angle_to_level(b).
C16_LevelMonotone ==
    \A i \in Initialized :
        \A a \in 0 .. 254 :
            angle_to_level(a, servo_state[i]) <= angle_to_level(a + 1, servo_state[i])

\* the integral part of pulse_us / 20000 * (wrap_val + 1), 20000 us being
\* the period 1000000 / SERVO_PWM_FREQ_HZ
IdealLevelFloor(pulse_us, wrap_val) ==
    pulse_us * ((wrap_val + 1) \div 20000)
      + (pulse_us * ((wrap_val + 1) % 20000)) \div 20000

\* pulse_us / 20000 * (wrap_val + 1) is a whole number
IdealLevelWhole(pulse_us, wrap_val) ==
    (pulse_us * ((wrap_val + 1) % 20000)) % 20000 = 0

\* |level - pulse_us / 20000 * (wrap_val + 1)| <= 1
WithinOneTick(level, pulse_us, wrap_val) ==
    /\ level <= IdealLevelFloor(pulse_us, wrap_val) + 1
    /\ level >= IdealLevelFloor(pulse_us, wrap_val)
                  - (IF IdealLevelWhole(pulse_us, wrap_val) THEN 1 ELSE 0)

\* level is the integral part of pulse_us / 20000 * (wrap_val + 1), give or
\* take one
WithinOneTickOfFloor(level, pulse_us, wrap_val) ==
    /\ level <= IdealLevelFloor(pulse_us, wrap_val) + 1
    /\ level >= IdealLevelFloor(pulse_us, wrap_val) - 1

\* pulse_us / 20000 * (wrap_val + 1) <= wrap_val: the clamp of
\* angle_to_level does not apply
BelowClamp(pulse_us, wrap_val) == pulse_us <= (20000 * wrap_val) \div (wrap_val + 1)

\* the level the last call has written
WrittenLevel == hw_calls[Len(hw_calls)][3]

\* the entry of GPIO g
EntryOf(g) == servo_state[CHOOSE i \in Slots : i \in EntriesOf(g)]

\* C17 as stated: after a successful init(pin, min, max), set(pin, 0) writes
\* a level within one tick of min / 20000 * (wrapValue + 1), set(pin, 180)
\* one within one tick of max / 20000 * (wrapValue + 1), and init itself has
\* written the level of set(pin, 0).
C17_EndLevels ==
    [][\A g \in PwmGpios :
          /\ (EntriesOf(g) # {} /\ servo_set(g, 0))
                => WithinOneTick(WrittenLevel', EntryOf(g).min_pulse_us,
                                 EntryOf(g).wrap_val)
          /\ (EntriesOf(g) # {} /\ servo_set(g, 180))
                => WithinOneTick(WrittenLevel', EntryOf(g).max_pulse_us,
                                 EntryOf(g).wrap_val)
          /\ (call.op = "servo_init" /\ ret /\ servo_set(g, 0))
                => WrittenLevel' = WrittenLevel]_vars

\* C17 amended: after a successful init(pin, min, max), set(pin, 0) writes
\* the integral part of min / 20000 * (wrapValue + 1), give or take one tick,
\* whenever that value is at most wrapValue, and set(pin, 180) the integral
\* part of max / 20000 * (wrapValue + 1), give or take one tick, whenever
\* that value is at most wrapValue (above wrapValue the clamp applies); init
\* itself has written the level of set(pin, 0).
C17_EndLevelsBelowClamp ==
    [][\A g \in PwmGpios :
          /\ (/\ EntriesOf(g) # {}
              /\ BelowClamp(EntryOf(g).min_pulse_us, EntryOf(g).wrap_val)
              /\ servo_set(g, 0))
                => WithinOneTickOfFloor(WrittenLevel', EntryOf(g).min_pulse_us,
                                        EntryOf(g).wrap_val)
          /\ (/\ EntriesOf(g) # {}
              /\ BelowClamp(EntryOf(g).max_pulse_us, EntryOf(g).wrap_val)
              /\ servo_set(g, 180))
                => WithinOneTickOfFloor(WrittenLevel', EntryOf(g).max_pulse_us,
                                        EntryOf(g).wrap_val)
          /\ (call.op = "servo_init" /\ ret /\ servo_set(g, 0))
                => WrittenLevel' = WrittenLevel]_vars

\* C17 witness: below the clamp, a set has written one less than the
\* integral part of min / 20000 * (wrapValue + 1), which is not whole
C17_Witness ==
    /\ call.op = "servo_set" /\ ret
    /\ BelowClamp(EntryOf(call.gpio_num).min_pulse_us, EntryOf(call.gpio_num).wrap_val)
    /\ ~IdealLevelWhole(EntryOf(call.gpio_num).min_pulse_us,
                        EntryOf(call.gpio_num).wrap_val)
    /\ WrittenLevel = IdealLevelFloor(EntryOf(call.gpio_num).min_pulse_us,
                                      EntryOf(call.gpio_num).wrap_val) - 1

\* C18: every initialized entry has a wrap value above 0, whatever the clock
\* at the time of its servo_init.
C18_WrapPositive ==
    \A i \in Initialized : servo_state[i].wrap_val > 0

\* C18 witness: an entry initialized at a clock whose period count does not
\* fit 16 bits
C18_Witness ==
    /\ PeriodCountExceeds16Bits
    /\ \E i \in Initialized : servo_state[i].wrap_val < 65535

\* C19: every compare level init and set write for a pin is at most the wrap
\* value of the pin's entry.
C19_LevelAtMostWrap ==
    /\ \A k \in 1 .. Len(hw_calls) :
          hw_calls[k][1] = "pwm_set_gpio_level"
              => \A i \in EntriesOf(hw_calls[k][2]) :
                    hw_calls[k][3] <= servo_state[i].wrap_val
    /\ \A i \in Initialized :
          pwm_level[servo_state[i].slice_num][servo_state[i].chan_num + 1]
              <= servo_state[i].wrap_val

\* C19 witness: a set has written the wrap value for a pulse longer than the
\* period
C19_Witness ==
    /\ call.op = "servo_set" /\ ret
    /\ EntryOf(call.gpio_num).min_pulse_us > 20000
    /\ WrittenLevel = EntryOf(call.gpio_num).wrap_val

====
